---- MODULE Spec2Model ----
(***************************************************************************)
(* The render / reload state machine of the shader viewer:                 *)
(*   - the GL objects the program creates and deletes (shader stages,      *)
(*     programs, the quad's vertex array and vertex buffer),               *)
(*   - compile_shader / compile_shader_program (graphics/shaders.rs),      *)
(*   - ShaderContext::new / reload_shaders / update / render /             *)
(*     process_events / drop (context/shader_context.rs),                  *)
(*   - the main loop and the file watcher (main.rs, utils/watcher.rs),     *)
(*   - the environment: the two shader files being edited, window events.  *)
(*                                                                         *)
(* The main thread is one process whose position is pc. Every step that   *)
(* observes the file system or that creates / deletes a GL object is its   *)
(* own action, so that orderings inside compile and reload are visible.    *)
(***************************************************************************)
EXTENDS Integers, FiniteSets, Sequences, TLC

(***************************************************************************)
(* Bounds.                                                                 *)
(***************************************************************************)
\* names the driver can hand out for shader and program objects (one namespace)
MaxHandle == 4
\* notify events queued for the watcher callback
MaxQueue == 1
\* reload signals pending in the mpsc channel
MaxChan == 2
\* how far the clock runs
MaxClock == 2

\* significant bits of an f32 (Duration::as_secs_f32)
MantissaBits == 24

\* framebuffer sizes the window can be given, and FramebufferSize events
\* that can wait for the next poll
MaxSize == 2
MaxEvents == 2

\* clock readings tried for TimeState on its own: k * 2^MantissaBits + j for
\* k up to MaxEpoch and j up to MaxJitter, and at most MaxTicks updates
MaxEpoch == 2
MaxJitter == 3
MaxTicks == 3

Handles == 1..MaxHandle

(***************************************************************************)
(* Contents of a shader file, by what the program can tell apart:         *)
(*   absent  : no file at the path (read fails: NotFound)                  *)
(*   binary  : bytes that are not UTF-8 (read_to_string fails)             *)
(*   nul     : valid UTF-8 holding a NUL byte (CString::new fails)         *)
(*   syntax  : text the driver refuses to compile                          *)
(*   A, B    : text that compiles; a vertex and a fragment stage link iff  *)
(*             they declare the same interface (both A or both B)          *)
(***************************************************************************)
FileKinds == {"absent", "binary", "nul", "syntax", "A", "B"}
Paths == {"vertex", "fragment"}

\* shaders.rs: the default sources written by create_default_shaders; the
\* vertex stage's out TexCoord matches the fragment stage's in TexCoord.
DefaultSource == "A"

\* Path::new(p).exists()
Exists(k) == k # "absent"

\* shaders.rs read_shader_source: fs::read_to_string succeeds iff the file is
\* there and is UTF-8 (a NUL byte is valid UTF-8).
ReadOk(k) == k \notin {"absent", "binary"}

\* CString::new(source.as_bytes()) is Err iff the bytes hold a NUL
CStringOk(k) == k # "nul"

\* the driver: COMPILE_STATUS of a source, LINK_STATUS of two compiled stages
Compiles(k) == k \in {"A", "B"}
Links(v, f) == Compiles(v) /\ Compiles(f) /\ v = f

VARIABLES
  pc,              \* position of the main thread
  caller,          \* who called compile_shader_program: "new" or "reload"
  files,           \* [Paths -> FileKinds]: the two shader files on disk
  gl,              \* the GL context's objects (record, see GlInit)
  vert_source,     \* compile_shader_program's locals
  frag_source,
  vert_shader,
  frag_shader,
  program,
  new_program,     \* the value compile_shader_program returned
  shader_program,  \* ShaderContext fields
  vao,
  vbo,
  time_state,
  clock,           \* what SystemTime::now() returns
  watcher,         \* "unset", "active", "failed" (None), "dropped"
  wq,              \* modify events queued for the watcher callback
  wpc,             \* the watch thread: "idle" or "sleeping" (in the callback)
  chan,            \* reload signals pending in the channel
  log,             \* the last message compile_shader_program wrote to stderr
  attempted,       \* history: stages compile_shader was called for in this call
  gl_before,       \* history: gl when compile_shader_program was called
  old_program,     \* history: shader_program when the last reload began
  lastReload,      \* history: "none", "ok", "failed" for this loop iteration
  rendered,        \* history: render ran in this loop iteration
  reloads,         \* history: reload_shaders() calls in this loop iteration
  ticks,           \* history: update() calls in this loop iteration
  uniforms,        \* what render last passed to glUniform*, and to which program
  readings,        \* history: the clock readings TimeState was given
  fb,              \* the window's framebuffer size (width and height as one)
  evq,             \* FramebufferSize events not yet seen by process_events
  viewport,        \* the GL viewport
  created,         \* history: the files new() wrote the default source to
  panicked         \* the main thread panicked (exit status 101)

vars == <<pc, caller, files, gl, vert_source, frag_source, vert_shader,
          frag_shader, program, new_program, shader_program, vao, vbo,
          time_state, clock, watcher, wq, wpc, chan, log, attempted,
          gl_before, old_program, lastReload, rendered, reloads, ticks,
          uniforms, readings, fb, evq, viewport, created, panicked>>

(***************************************************************************)
(* The GL context. Shader and program names share one namespace; a name   *)
(* is free until glCreate* returns it and free again once the object is   *)
(* really deleted. glDeleteShader on an attached shader and               *)
(* glDeleteProgram on the program in use only flag the object; it is      *)
(* deleted when detached / no longer current.                             *)
(*   kind     : [Handles -> "free" | "vertex" | "fragment" | "program"]   *)
(*   src      : the source a shader object was given ("none" otherwise)   *)
(*   linked   : programs whose LINK_STATUS is true                        *)
(*   attached : pairs <<program, shader>>                                 *)
(*   flagged  : objects flagged for deletion                              *)
(*   current  : the program installed by glUseProgram (0: none)           *)
(*   err      : some call named an object that does not exist             *)
(*   dbl      : some glDelete* call named an object already flagged       *)
(*   vaos, bufs : live vertex array / buffer names                        *)
(*   vaoDel, bufDel : glDeleteVertexArrays / glDeleteBuffers calls made   *)
(***************************************************************************)
GlInit ==
  [kind |-> [h \in Handles |-> "free"],
   src |-> [h \in Handles |-> "none"],
   linked |-> {},
   attached |-> {},
   flagged |-> {},
   current |-> 0,
   err |-> FALSE,
   dbl |-> FALSE,
   vaos |-> {},
   bufs |-> {},
   vaoDel |-> 0,
   bufDel |-> 0]

Min2(a, b) == IF a < b THEN a ELSE b

\* The names glCreateShader / glCreateProgram may return: a driver hands out
\* some unused name; here the lowest unused one (a freed name is reused at
\* once) or the highest unused one (it is not).
UnusedNames(g) == {h \in Handles : g.kind[h] = "free"}
FreeNames(g) ==
  {h \in UnusedNames(g) : \/ \A m \in UnusedNames(g) : h <= m
                          \/ \A m \in UnusedNames(g) : h >= m}
Shaders(g) == {h \in Handles : g.kind[h] \in {"vertex", "fragment"}}
Programs(g) == {h \in Handles : g.kind[h] = "program"}
AttachedTo(g, p) == {s \in Handles : <<p, s>> \in g.attached}
IsAttached(g, s) == \E p \in Handles : <<p, s>> \in g.attached
\* objects the application has created and not yet asked to delete
LiveObjects(g) == {h \in Handles : g.kind[h] # "free"} \ g.flagged

\* glCreateShader / glCreateProgram returning the unused name n
GlCreate(g, n, k) ==
  [g EXCEPT !.kind[n] = k, !.src[n] = "none"]

\* glShaderSource + glCompileShader
GlCompileShader(g, s, source) == [g EXCEPT !.src[s] = source]

\* the object s really goes away
GlFreeShader(g, s) ==
  [g EXCEPT !.kind[s] = "free", !.src[s] = "none", !.flagged = @ \ {s}]

\* glDeleteShader: 0 is ignored; an attached shader is only flagged
GlDeleteShader(g, s) ==
  IF s = 0 THEN g
  ELSE IF s \notin Shaders(g) THEN [g EXCEPT !.err = TRUE]
  ELSE IF s \in g.flagged THEN [g EXCEPT !.dbl = TRUE]
  ELSE IF IsAttached(g, s) THEN [g EXCEPT !.flagged = @ \cup {s}]
  ELSE GlFreeShader(g, s)

\* glAttachShader
GlAttachShader(g, p, s) ==
  IF p \in Programs(g) /\ s \in Shaders(g)
  THEN [g EXCEPT !.attached = @ \cup {<<p, s>>}]
  ELSE [g EXCEPT !.err = TRUE]

\* glDetachShader: a shader flagged for deletion goes away with its last
\* attachment
GlDetachShader(g, p, s) ==
  IF <<p, s>> \notin g.attached THEN [g EXCEPT !.err = TRUE]
  ELSE LET g1 == [g EXCEPT !.attached = @ \ {<<p, s>>}]
       IN IF s \in g1.flagged /\ ~IsAttached(g1, s) THEN GlFreeShader(g1, s)
          ELSE g1

\* glLinkProgram: LINK_STATUS from the attached stages
GlLinkProgram(g, p) ==
  LET vs == {s \in AttachedTo(g, p) : g.kind[s] = "vertex"}
      fs == {s \in AttachedTo(g, p) : g.kind[s] = "fragment"}
      ok == \E v \in vs : \E f \in fs : Links(g.src[v], g.src[f])
  IN IF p \notin Programs(g) THEN [g EXCEPT !.err = TRUE]
     ELSE [g EXCEPT !.linked = IF ok THEN @ \cup {p} ELSE @ \ {p}]

\* the program object p really goes away: its shaders are detached, and those
\* flagged for deletion go with it
GlFreeProgram(g, p) ==
  LET att == AttachedTo(g, p)
      rest == g.attached \ {<<p, s>> : s \in att}
      dead == {s \in att : s \in g.flagged /\ ~(\E q \in Handles : <<q, s>> \in rest)}
  IN [g EXCEPT !.kind = [h \in Handles |-> IF h = p \/ h \in dead THEN "free" ELSE @[h]],
               !.src = [h \in Handles |-> IF h \in dead THEN "none" ELSE @[h]],
               !.linked = @ \ {p},
               !.attached = rest,
               !.flagged = @ \ ({p} \cup dead)]

\* glDeleteProgram: 0 is ignored; the program in use is only flagged
GlDeleteProgram(g, p) ==
  IF p = 0 THEN g
  ELSE IF p \notin Programs(g) THEN [g EXCEPT !.err = TRUE]
  ELSE IF p \in g.flagged THEN [g EXCEPT !.dbl = TRUE]
  ELSE IF g.current = p THEN [g EXCEPT !.flagged = @ \cup {p}]
  ELSE GlFreeProgram(g, p)

\* glUseProgram: 0 installs no program; a name that is no linked program is an
\* error and leaves the current program; a flagged program that stops being
\* current is deleted
GlUseProgram(g, p) ==
  IF p # 0 /\ (p \notin Programs(g) \/ p \notin g.linked)
  THEN [g EXCEPT !.err = TRUE]
  ELSE LET g1 == [g EXCEPT !.current = p]
       IN IF g.current # 0 /\ g.current # p /\ g.current \in g.flagged
          THEN GlFreeProgram(g1, g.current)
          ELSE g1

\* glGenVertexArrays / glGenBuffers: the lowest unused name of the namespace
GenName(used) == CHOOSE n \in 1..(Cardinality(used) + 1) :
                   n \notin used /\ \A m \in 1..(n - 1) : m \in used

\* glDeleteBuffers / glDeleteVertexArrays silently ignore 0 and unused names
GlDeleteBuffer(g, b) ==
  IF b = 0 THEN g
  ELSE [g EXCEPT !.bufs = @ \ {b}, !.bufDel = Min2(@ + 1, 2)]
GlDeleteVertexArray(g, a) ==
  IF a = 0 THEN g
  ELSE [g EXCEPT !.vaos = @ \ {a}, !.vaoDel = Min2(@ + 1, 2)]

(***************************************************************************)
(* The program.                                                            *)
(***************************************************************************)
locals == <<vert_source, frag_source, vert_shader, frag_shader, program>>
ctxv == <<shader_program, vao, vbo, time_state>>
watch == <<watcher, wq, wpc, chan>>
hist == <<old_program, lastReload, rendered>>
call == <<log, attempted, gl_before>>
iter == <<reloads, ticks>>
win == <<fb, evq, viewport>>

\* the size new() asks create_window for; the viewport of a context made
\* current for the first time is the size of its window
InitialSize == 1

TimeNew(now) == [start |-> now, last |-> now, delta |-> 0, total |-> 0]

Init ==
  /\ pc = "start"
  /\ caller = "none"
  /\ files \in [Paths -> FileKinds]
  /\ gl = GlInit
  /\ vert_source = "none"
  /\ frag_source = "none"
  /\ vert_shader = 0
  /\ frag_shader = 0
  /\ program = 0
  /\ new_program = 0
  /\ shader_program = 0
  /\ vao = 0
  /\ vbo = 0
  /\ time_state = TimeNew(0)
  /\ clock = 0
  /\ watcher = "unset"
  /\ wq = 0
  /\ wpc = "idle"
  /\ chan = 0
  /\ log = "none"
  /\ attempted = {}
  /\ gl_before = GlInit
  /\ old_program = 0
  /\ lastReload = "none"
  /\ rendered = FALSE
  /\ reloads = 0
  /\ ticks = 0
  /\ uniforms = [prog |-> 0, u_time |-> 0, u_deltaTime |-> 0,
                 u_epochTime |-> 0, u_resolution |-> 0]
  /\ fb = InitialSize
  /\ evq = <<>>
  /\ viewport = InitialSize
  /\ created = {}
  /\ readings = <<>>
  /\ panicked = FALSE

(***************************************************************************)
(* graphics/shaders.rs                                                     *)
(***************************************************************************)
\* compile_shader(source, shader_type) with glCreateShader returning n:
\* the outcome and the GL state it leaves. A NUL in the source makes
\* CString::new(..).unwrap() panic after the shader object was created.
compile_shader(g, n, source, k) ==
  LET g1 == GlCreate(g, n, k)
      g2 == GlCompileShader(g1, n, source)
  IN IF ~CStringOk(source) THEN [res |-> "panic", shader |-> 0, g |-> g1]
     ELSE IF ~Compiles(source)
          THEN [res |-> "err", shader |-> 0, g |-> GlDeleteShader(g2, n)]
          ELSE [res |-> "ok", shader |-> n, g |-> g2]

\* compile_shader_program returns v to its caller; its locals go out of scope
Return(v, msg) ==
  /\ new_program' = v
  /\ log' = msg
  /\ lastReload' = IF caller # "reload" THEN lastReload
                   ELSE IF v # 0 THEN "ok" ELSE "failed"
  /\ pc' = IF caller = "new" THEN "n_construct" ELSE "r_check"
  /\ vert_source' = "none"
  /\ frag_source' = "none"
  /\ vert_shader' = 0
  /\ frag_shader' = 0
  /\ program' = 0
  /\ UNCHANGED panicked

\* a panic inside compile_shader_program. Nothing catches it: under new() no
\* ShaderContext exists yet, so no Drop runs; under reload_shaders() main
\* unwinds and drops its locals in reverse order of declaration.
Panic ==
  /\ panicked' = TRUE
  /\ UNCHANGED <<new_program, log, lastReload>>
  /\ pc' = IF caller = "new" THEN "done" ELSE "drop_watcher"

ReadVert ==
  /\ pc = "c_read_vert"
  /\ IF ReadOk(files["vertex"])
     THEN /\ vert_source' = files["vertex"]
          /\ pc' = "c_read_frag"
          /\ UNCHANGED <<frag_source, vert_shader, frag_shader, program,
                         new_program, log, lastReload, panicked>>
     ELSE Return(0, "Failed to read vertex shader")
  /\ UNCHANGED <<caller, files, gl, ctxv, clock, watch, attempted, gl_before,
                 old_program, rendered>>
  /\ UNCHANGED <<iter, uniforms, readings, win, created>>

ReadFrag ==
  /\ pc = "c_read_frag"
  /\ IF ReadOk(files["fragment"])
     THEN /\ frag_source' = files["fragment"]
          /\ pc' = "c_compile_vert"
          /\ UNCHANGED <<vert_source, vert_shader, frag_shader, program,
                         new_program, log, lastReload, panicked>>
     ELSE Return(0, "Failed to read fragment shader")
  /\ UNCHANGED <<caller, files, gl, ctxv, clock, watch, attempted, gl_before,
                 old_program, rendered>>
  /\ UNCHANGED <<iter, uniforms, readings, win, created>>

\* mutant: a vertex stage that does not compile is reported, and the
\* function goes on to the fragment stage
CompileVert_NoReturn ==
  /\ pc = "c_compile_vert"
  /\ \E n \in FreeNames(gl) :
       LET r == compile_shader(gl, n, vert_source, "vertex")
       IN /\ gl' = r.g
          /\ CASE r.res \in {"ok", "err"} ->
                    /\ vert_shader' = r.shader
                    /\ pc' = "c_compile_frag"
                    /\ log' = IF r.res = "ok" THEN log
                              ELSE "Vertex shader compilation failed"
                    /\ UNCHANGED <<vert_source, frag_source, frag_shader,
                                   program, new_program, lastReload,
                                   panicked>>
               [] r.res = "panic" ->
                    /\ Panic
                    /\ UNCHANGED locals
  /\ attempted' = attempted \cup {"vertex"}
  /\ UNCHANGED <<caller, files, ctxv, clock, watch, gl_before, old_program,
                 rendered>>
  /\ UNCHANGED <<iter, uniforms, readings, win, created>>

CompileVert ==
  /\ pc = "c_compile_vert"
  /\ \E n \in FreeNames(gl) :
       LET r == compile_shader(gl, n, vert_source, "vertex")
       IN /\ gl' = r.g
          /\ CASE r.res = "ok" ->
                    /\ vert_shader' = r.shader
                    /\ pc' = "c_compile_frag"
                    /\ UNCHANGED <<vert_source, frag_source, frag_shader,
                                   program, new_program, log, lastReload,
                                   panicked>>
               [] r.res = "err" ->
                    Return(0, "Vertex shader compilation failed")
               [] r.res = "panic" ->
                    /\ Panic
                    /\ UNCHANGED locals
  /\ attempted' = attempted \cup {"vertex"}
  /\ UNCHANGED <<caller, files, ctxv, clock, watch, gl_before, old_program,
                 rendered>>
  /\ UNCHANGED <<iter, uniforms, readings, win, created>>

\* mutant: the vertex stage is not deleted when the fragment stage fails
CompileFrag_LeakVert ==
  /\ pc = "c_compile_frag"
  /\ \E n \in FreeNames(gl) :
       LET r == compile_shader(gl, n, frag_source, "fragment")
       IN CASE r.res = "ok" ->
                 /\ gl' = r.g
                 /\ frag_shader' = r.shader
                 /\ pc' = "c_link"
                 /\ UNCHANGED <<vert_source, frag_source, vert_shader,
                                program, new_program, log, lastReload,
                                panicked>>
            [] r.res = "err" ->
                 /\ gl' = r.g
                 /\ Return(0, "Fragment shader compilation failed")
            [] r.res = "panic" ->
                 /\ gl' = r.g
                 /\ Panic
                 /\ UNCHANGED locals
  /\ attempted' = attempted \cup {"fragment"}
  /\ UNCHANGED <<caller, files, ctxv, clock, watch, gl_before, old_program,
                 rendered>>
  /\ UNCHANGED <<iter, uniforms, readings, win, created>>

CompileFrag ==
  /\ pc = "c_compile_frag"
  /\ \E n \in FreeNames(gl) :
       LET r == compile_shader(gl, n, frag_source, "fragment")
       IN CASE r.res = "ok" ->
                 /\ gl' = r.g
                 /\ frag_shader' = r.shader
                 /\ pc' = "c_link"
                 /\ UNCHANGED <<vert_source, frag_source, vert_shader,
                                program, new_program, log, lastReload,
                                panicked>>
            [] r.res = "err" ->
                 /\ gl' = GlDeleteShader(r.g, vert_shader)
                 /\ Return(0, "Fragment shader compilation failed")
            [] r.res = "panic" ->
                 /\ gl' = r.g
                 /\ Panic
                 /\ UNCHANGED locals
  /\ attempted' = attempted \cup {"fragment"}
  /\ UNCHANGED <<caller, files, ctxv, clock, watch, gl_before, old_program,
                 rendered>>
  /\ UNCHANGED <<iter, uniforms, readings, win, created>>

\* mutant: a program that failed to link is not deleted
LinkProgram_LeakProgram ==
  /\ pc = "c_link"
  /\ \E n \in FreeNames(gl) :
       LET g1 == GlCreate(gl, n, "program")
           g2 == GlAttachShader(g1, n, vert_shader)
           g3 == GlAttachShader(g2, n, frag_shader)
           g4 == GlLinkProgram(g3, n)
       IN IF n \notin g4.linked
          THEN /\ gl' = GlDeleteShader(
                          GlDeleteShader(
                            GlDetachShader(
                              GlDetachShader(g4, n, vert_shader),
                              n, frag_shader),
                            vert_shader),
                          frag_shader)
               /\ Return(0, "Program linking failed")
          ELSE /\ gl' = g4
               /\ program' = n
               /\ pc' = "c_detach_vert"
               /\ UNCHANGED <<vert_source, frag_source, vert_shader,
                              frag_shader, new_program, log, lastReload,
                              panicked>>
  /\ UNCHANGED <<caller, files, ctxv, clock, watch, attempted, gl_before,
                 old_program, rendered>>
  /\ UNCHANGED <<iter, uniforms, readings, win, created>>

\* glCreateProgram .. the LINK_STATUS check, and the failure branch
LinkProgram ==
  /\ pc = "c_link"
  /\ \E n \in FreeNames(gl) :
       LET g1 == GlCreate(gl, n, "program")
           g2 == GlAttachShader(g1, n, vert_shader)
           g3 == GlAttachShader(g2, n, frag_shader)
           g4 == GlLinkProgram(g3, n)
       IN IF n \notin g4.linked
          THEN /\ gl' = GlDeleteShader(
                          GlDeleteShader(GlDeleteProgram(g4, n), vert_shader),
                          frag_shader)
               /\ Return(0, "Program linking failed")
          ELSE /\ gl' = g4
               /\ program' = n
               /\ pc' = "c_detach_vert"
               /\ UNCHANGED <<vert_source, frag_source, vert_shader,
                              frag_shader, new_program, log, lastReload,
                              panicked>>
  /\ UNCHANGED <<caller, files, ctxv, clock, watch, attempted, gl_before,
                 old_program, rendered>>
  /\ UNCHANGED <<iter, uniforms, readings, win, created>>

DetachVert ==
  /\ pc = "c_detach_vert"
  /\ gl' = GlDetachShader(gl, program, vert_shader)
  /\ pc' = "c_detach_frag"
  /\ UNCHANGED <<caller, files, locals, new_program, ctxv, clock, watch, hist,
                 call, panicked>>
  /\ UNCHANGED <<iter, uniforms, readings, win, created>>

\* mutant: the fragment stage is deleted without being detached
DetachFrag_Skipped ==
  /\ pc = "c_detach_frag"
  /\ pc' = "c_delete_vert"
  /\ UNCHANGED <<caller, files, gl, locals, new_program, ctxv, clock, watch,
                 hist, call, panicked>>
  /\ UNCHANGED <<iter, uniforms, readings, win, created>>

DetachFrag ==
  /\ pc = "c_detach_frag"
  /\ gl' = GlDetachShader(gl, program, frag_shader)
  /\ pc' = "c_delete_vert"
  /\ UNCHANGED <<caller, files, locals, new_program, ctxv, clock, watch, hist,
                 call, panicked>>
  /\ UNCHANGED <<iter, uniforms, readings, win, created>>

DeleteVert ==
  /\ pc = "c_delete_vert"
  /\ gl' = GlDeleteShader(gl, vert_shader)
  /\ pc' = "c_delete_frag"
  /\ UNCHANGED <<caller, files, locals, new_program, ctxv, clock, watch, hist,
                 call, panicked>>
  /\ UNCHANGED <<iter, uniforms, readings, win, created>>

\* mutant: compile_shader_program installs the program it linked itself
DeleteFrag_InstallsProgram ==
  /\ pc = "c_delete_frag"
  /\ gl' = GlDeleteShader(gl, frag_shader)
  /\ shader_program' = program
  /\ Return(program, "none")
  /\ UNCHANGED <<caller, files, vao, vbo, time_state, clock, watch, attempted,
                 gl_before, old_program, rendered>>
  /\ UNCHANGED <<iter, uniforms, readings, win, created>>

DeleteFrag ==
  /\ pc = "c_delete_frag"
  /\ gl' = GlDeleteShader(gl, frag_shader)
  /\ Return(program, "none")
  /\ UNCHANGED <<caller, files, ctxv, clock, watch, attempted, gl_before,
                 old_program, rendered>>
  /\ UNCHANGED <<iter, uniforms, readings, win, created>>

\* mutant: the default sources are written whether or not a file is there
create_default_shaders_Overwrite(f) ==
  [p \in Paths |-> DefaultSource]

\* create_default_shaders: a file that is not there gets the default source
create_default_shaders(f) ==
  [p \in Paths |-> IF Exists(f[p]) THEN f[p] ELSE DefaultSource]

(***************************************************************************)
(* graphics/buffers.rs, graphics/time.rs                                   *)
(***************************************************************************)
\* create_vertex_buffers: glGenVertexArrays, glGenBuffers
create_vertex_buffers(g) ==
  LET a == GenName(g.vaos)
      b == GenName(g.bufs)
  IN [vao |-> a, vbo |-> b,
      g |-> [g EXCEPT !.vaos = @ \cup {a}, !.bufs = @ \cup {b}]]

\* mutant: the interval is taken as it comes, negative or not
DurationSince_Unclamped(now, earlier) == now - earlier

\* now.duration_since(earlier).unwrap_or(Duration::from_secs(0))
DurationSince(now, earlier) == IF now >= earlier THEN now - earlier ELSE 0

\* 2^n
RECURSIVE Pow2(_)
Pow2(n) == IF n = 0 THEN 1 ELSE 2 * Pow2(n - 1)

\* the spacing of the f32 values around d: the least power of two u with
\* d < u * 2^MantissaBits
RECURSIVE Ulp(_, _)
Ulp(d, u) == IF d < u * Pow2(MantissaBits) THEN u ELSE Ulp(d, 2 * u)

\* Duration::as_secs_f32. Times are kept in clock units throughout; the f32
\* result keeps MantissaBits significant bits of the duration d, rounded to
\* nearest, ties to even.
AsSecsF32(d) ==
  LET u == Ulp(d, 1)
      q == d \div u
      r == d % u
  IN IF 2 * r < u \/ (2 * r = u /\ q % 2 = 0) THEN q * u ELSE (q + 1) * u

\* mutant: the start of the run is moved to the frame before
TimeUpdate_FromLastFrame(t, now) ==
  [start |-> t.last,
   last |-> now,
   delta |-> AsSecsF32(DurationSince(now, t.last)),
   total |-> AsSecsF32(DurationSince(now, t.last))]

\* TimeState::update with SystemTime::now() = now
TimeUpdate(t, now) ==
  [start |-> t.start,
   last |-> now,
   delta |-> AsSecsF32(DurationSince(now, t.last)),
   total |-> AsSecsF32(DurationSince(now, t.start))]

(***************************************************************************)
(* context/shader_context.rs: ShaderContext                                *)
(***************************************************************************)
\* new(): window and GL context exist; create_vertex_buffers()
NewBuffers ==
  /\ pc = "start"
  /\ LET r == create_vertex_buffers(gl)
     IN /\ gl' = r.g
        /\ vao' = r.vao
        /\ vbo' = r.vbo
  /\ pc' = "n_defaults"
  /\ UNCHANGED <<caller, files, locals, new_program, shader_program,
                 time_state, clock, watch, hist, call, panicked>>
  /\ UNCHANGED <<iter, uniforms, readings, win, created>>

\* new(): create_default_shaders(), then the call of compile_shader_program
NewDefaults ==
  /\ pc = "n_defaults"
  /\ files' = create_default_shaders(files)
  /\ caller' = "new"
  /\ log' = "none"
  /\ attempted' = {}
  /\ gl_before' = gl
  /\ pc' = "c_read_vert"
  /\ UNCHANGED <<gl, locals, new_program, ctxv, clock, watch, hist, panicked>>
  /\ UNCHANGED <<iter, uniforms, readings, win>>
  /\ created' = {p \in Paths : ~Exists(files[p])}

\* new(): the ShaderContext value is built from what compile returned
NewConstruct ==
  /\ pc = "n_construct"
  /\ shader_program' = new_program
  /\ time_state' = TimeNew(clock)
  /\ new_program' = 0
  /\ caller' = "none"
  /\ attempted' = {}
  /\ gl_before' = GlInit
  /\ pc' = "watch"
  /\ UNCHANGED <<files, gl, locals, vao, vbo, clock, watch, hist, log,
                 panicked>>
  /\ UNCHANGED <<iter, uniforms, readings, win>>
  /\ created' = {}

\* where the main loop goes on after its reload step
AfterReload == "update"

\* mutant: the old program is deleted before the new one is compiled
ReloadBegin_DeleteFirst ==
  /\ pc = "r_start"
  /\ old_program' = shader_program
  /\ caller' = "reload"
  /\ log' = "none"
  /\ attempted' = {}
  /\ gl' = GlDeleteProgram(gl, shader_program)
  /\ gl_before' = gl'
  /\ pc' = "c_read_vert"
  /\ UNCHANGED <<files, locals, new_program, ctxv, clock, watch, lastReload,
                 rendered, panicked>>
  /\ reloads' = Min2(reloads + 1, 2)
  /\ UNCHANGED <<ticks, uniforms, readings, win, created>>

\* reload_shaders(): entry, the call of compile_shader_program
ReloadBegin ==
  /\ pc = "r_start"
  /\ old_program' = shader_program
  /\ caller' = "reload"
  /\ log' = "none"
  /\ attempted' = {}
  /\ gl_before' = gl
  /\ pc' = "c_read_vert"
  /\ UNCHANGED <<files, gl, locals, new_program, ctxv, clock, watch,
                 lastReload, rendered, panicked>>
  /\ reloads' = Min2(reloads + 1, 2)
  /\ UNCHANGED <<ticks, uniforms, readings, win, created>>

\* mutant: the result of the compile is not tested
ReloadCheck_NoTest ==
  /\ pc = "r_check"
  /\ gl' = GlDeleteProgram(gl, shader_program)
  /\ pc' = "r_assign"
  /\ caller' = "none"
  /\ attempted' = {}
  /\ gl_before' = GlInit
  /\ UNCHANGED <<files, locals, new_program, ctxv, clock, watch, hist, log,
                 panicked>>
  /\ UNCHANGED <<iter, uniforms, readings, win, created>>

\* mutant: the old program is never deleted
ReloadCheck_NoDelete ==
  /\ pc = "r_check"
  /\ pc' = IF new_program # 0 THEN "r_assign" ELSE AfterReload
  /\ caller' = "none"
  /\ attempted' = {}
  /\ gl_before' = GlInit
  /\ UNCHANGED <<files, gl, locals, new_program, ctxv, clock, watch, hist,
                 log, panicked>>
  /\ UNCHANGED <<iter, uniforms, readings, win, created>>

\* mutant: the new program is deleted instead of the old one
ReloadCheck_DeleteNew ==
  /\ pc = "r_check"
  /\ IF new_program # 0
     THEN /\ gl' = GlDeleteProgram(gl, new_program)
          /\ pc' = "r_assign"
     ELSE /\ pc' = AfterReload
          /\ UNCHANGED gl
  /\ caller' = "none"
  /\ attempted' = {}
  /\ gl_before' = GlInit
  /\ UNCHANGED <<files, locals, new_program, ctxv, clock, watch, hist, log,
                 panicked>>
  /\ UNCHANGED <<iter, uniforms, readings, win, created>>

\* reload_shaders(): if new_program != 0 { glDeleteProgram(self.shader_program)
ReloadCheck ==
  /\ pc = "r_check"
  /\ IF new_program # 0
     THEN /\ gl' = GlDeleteProgram(gl, shader_program)
          /\ pc' = "r_assign"
     ELSE /\ pc' = AfterReload
          /\ UNCHANGED gl
  /\ caller' = "none"
  /\ attempted' = {}
  /\ gl_before' = GlInit
  /\ UNCHANGED <<files, locals, new_program, ctxv, clock, watch, hist, log,
                 panicked>>
  /\ UNCHANGED <<iter, uniforms, readings, win, created>>

\* mutant: the new program is installed only in place of an old one
ReloadAssign_KeepsZero ==
  /\ pc = "r_assign"
  /\ shader_program' = IF shader_program = 0 THEN 0 ELSE new_program
  /\ new_program' = 0
  /\ pc' = AfterReload
  /\ UNCHANGED <<caller, files, gl, locals, vao, vbo, time_state, clock,
                 watch, hist, call, panicked>>
  /\ UNCHANGED <<iter, uniforms, readings, win, created>>

\* reload_shaders(): self.shader_program = new_program
ReloadAssign ==
  /\ pc = "r_assign"
  /\ shader_program' = new_program
  /\ new_program' = 0
  /\ pc' = AfterReload
  /\ UNCHANGED <<caller, files, gl, locals, vao, vbo, time_state, clock,
                 watch, hist, call, panicked>>
  /\ UNCHANGED <<iter, uniforms, readings, win, created>>

\* mutant: update() leaves the time state alone
Update_NoTimeUpdate ==
  /\ pc = "update"
  /\ pc' = "render"
  /\ UNCHANGED <<caller, files, gl, locals, new_program, shader_program, vao,
                 vbo, time_state, clock, watch, hist, call, panicked>>
  /\ ticks' = Min2(ticks + 1, 2)
  /\ UNCHANGED <<reloads, uniforms, readings, win, created>>

\* update()
Update ==
  /\ pc = "update"
  /\ time_state' = TimeUpdate(time_state, clock)
  /\ pc' = "render"
  /\ UNCHANGED <<caller, files, gl, locals, new_program, shader_program, vao,
                 vbo, clock, watch, hist, call, panicked>>
  /\ ticks' = Min2(ticks + 1, 2)
  /\ UNCHANGED <<reloads, uniforms, readings, win, created>>

\* glBindVertexArray(a); glDrawArrays; glBindVertexArray(0)
GlDraw(g, a) == IF a \in g.vaos THEN g ELSE [g EXCEPT !.err = TRUE]

\* mutant: the program is bound only while no program is in use
Render_BindOnce ==
  /\ pc = "render"
  /\ gl' = IF gl.current # 0 THEN GlDraw(gl, vao)
           ELSE GlDraw(GlUseProgram(gl, shader_program), vao)
  /\ rendered' = TRUE
  /\ pc' = "poll"
  /\ UNCHANGED <<caller, files, locals, new_program, ctxv, clock, watch,
                 old_program, lastReload, call, panicked>>
  /\ uniforms' = IF gl'.current = 0 THEN uniforms
                 ELSE [prog |-> gl'.current, u_time |-> time_state.total,
                       u_deltaTime |-> time_state.delta,
                       u_epochTime |-> AsSecsF32(clock),
                       u_resolution |-> fb]
  /\ UNCHANGED <<iter, readings, win, created>>

\* render(): glUseProgram(self.shader_program), the uniforms, the draw, the
\* buffer swap. glGetUniformLocation returns -1 for a name it cannot resolve
\* (and for program 0) and glUniform* ignores location -1: with no program
\* in use no uniform is set.
Render ==
  /\ pc = "render"
  /\ gl' = GlDraw(GlUseProgram(gl, shader_program), vao)
  /\ rendered' = TRUE
  /\ pc' = "poll"
  /\ UNCHANGED <<caller, files, locals, new_program, ctxv, clock, watch,
                 old_program, lastReload, call, panicked>>
  /\ uniforms' = IF gl'.current = 0 THEN uniforms
                 ELSE [prog |-> gl'.current, u_time |-> time_state.total,
                       u_deltaTime |-> time_state.delta,
                       u_epochTime |-> AsSecsF32(clock),
                       u_resolution |-> fb]
  /\ UNCHANGED <<iter, readings, win, created>>

\* process_events(): poll and flush the window events; false once Escape was
\* pressed or the window was asked to close. (The history of the iteration
\* that ended is forgotten here.)
ProcessEvents ==
  /\ pc = "poll"
  /\ \E escape \in BOOLEAN, close \in BOOLEAN :
       pc' = IF escape \/ close THEN "drop_watcher" ELSE "try_recv"
  /\ old_program' = 0
  /\ lastReload' = "none"
  /\ rendered' = FALSE
  /\ log' = "none"
  /\ UNCHANGED <<caller, files, gl, locals, new_program, ctxv, clock, watch,
                 attempted, gl_before, panicked>>
  /\ reloads' = 0
  /\ ticks' = 0
  /\ viewport' = IF evq = <<>> THEN viewport ELSE evq[Len(evq)]
  /\ evq' = <<>>
  /\ UNCHANGED <<uniforms, readings, fb, created>>

\* mutant: the handles are released by hand and then again by Drop
DropContext_Twice ==
  /\ pc = "drop_state"
  /\ LET g1 == GlDeleteVertexArray(
                 GlDeleteBuffer(GlDeleteProgram(gl, shader_program), vbo), vao)
     IN gl' = GlDeleteVertexArray(
                GlDeleteBuffer(GlDeleteProgram(g1, shader_program), vbo), vao)
  /\ pc' = "done"
  /\ UNCHANGED <<caller, files, locals, new_program, ctxv, clock, watch, hist,
                 call, panicked>>
  /\ UNCHANGED <<iter, uniforms, readings, win, created>>

\* Drop for ShaderContext
DropContext ==
  /\ pc = "drop_state"
  /\ gl' = GlDeleteVertexArray(
             GlDeleteBuffer(GlDeleteProgram(gl, shader_program), vbo), vao)
  /\ pc' = "done"
  /\ UNCHANGED <<caller, files, locals, new_program, ctxv, clock, watch, hist,
                 call, panicked>>
  /\ UNCHANGED <<iter, uniforms, readings, win, created>>

(***************************************************************************)
(* main.rs: main, and utils/watcher.rs                                     *)
(***************************************************************************)
\* mutant: a watcher that cannot be started ends the program
StartWatcher_Unwrap ==
  /\ pc = "watch"
  /\ \E ok \in BOOLEAN :
       /\ watcher' = IF ok THEN "active" ELSE "failed"
       /\ panicked' = ~ok
       /\ pc' = IF ok THEN "poll" ELSE "drop_watcher"
  /\ UNCHANGED <<caller, files, gl, locals, new_program, ctxv, clock, wq, wpc,
                 chan, hist, call>>
  /\ UNCHANGED <<iter, uniforms, readings, win, created>>

\* watch_shader_files(sender): Ok(watcher) or, logged, None
StartWatcher ==
  /\ pc = "watch"
  /\ \E ok \in BOOLEAN : watcher' = IF ok THEN "active" ELSE "failed"
  /\ pc' = "poll"
  /\ UNCHANGED <<caller, files, gl, locals, new_program, ctxv, clock, wq, wpc,
                 chan, hist, call, panicked>>
  /\ UNCHANGED <<iter, uniforms, readings, win, created>>

\* mutant: reload_shaders() is called whether or not a signal was received
TryRecv_Always ==
  /\ pc = "try_recv"
  /\ chan' = IF chan > 0 THEN chan - 1 ELSE chan
  /\ pc' = "r_start"
  /\ UNCHANGED <<caller, files, gl, locals, new_program, ctxv, clock, watcher,
                 wq, wpc, hist, call, panicked>>
  /\ UNCHANGED <<iter, uniforms, readings, win, created>>

\* mutant: the loop waits for a signal (recv() in place of try_recv())
TryRecv_Blocking ==
  /\ pc = "try_recv"
  /\ chan > 0
  /\ chan' = chan - 1
  /\ pc' = "r_start"
  /\ UNCHANGED <<caller, files, gl, locals, new_program, ctxv, clock, watcher,
                 wq, wpc, hist, call, panicked>>
  /\ UNCHANGED <<iter, uniforms, readings, win, created>>

\* if receiver.try_recv().is_ok() { reload_shaders() }
TryRecv ==
  /\ pc = "try_recv"
  /\ IF chan > 0
     THEN /\ chan' = chan - 1
          /\ pc' = "r_start"
     ELSE /\ pc' = AfterReload
          /\ UNCHANGED chan
  /\ UNCHANGED <<caller, files, gl, locals, new_program, ctxv, clock, watcher,
                 wq, wpc, hist, call, panicked>>
  /\ UNCHANGED <<iter, uniforms, readings, win, created>>

\* mutant: a pending signal is still served when the loop has ended
DropWatcher_ServesBacklog ==
  /\ pc = "drop_watcher"
  /\ watcher' = IF watcher = "active" THEN "dropped" ELSE watcher
  /\ wq' = 0
  /\ pc' = IF chan > 0 /\ ~panicked THEN "try_recv" ELSE "drop_state"
  /\ UNCHANGED <<caller, files, gl, locals, new_program, ctxv, clock, wpc,
                 chan, hist, call, panicked>>
  /\ UNCHANGED <<iter, uniforms, readings, win, created>>

\* end of main (or unwinding): _watcher is dropped first, then the receiver
DropWatcher ==
  /\ pc = "drop_watcher"
  /\ watcher' = IF watcher = "active" THEN "dropped" ELSE watcher
  /\ wq' = 0
  /\ pc' = "drop_state"
  /\ UNCHANGED <<caller, files, gl, locals, new_program, ctxv, clock, wpc,
                 chan, hist, call, panicked>>
  /\ UNCHANGED <<iter, uniforms, readings, win, created>>

\* the receiver is alive until main's locals are dropped
ReceiverAlive == pc \notin {"drop_state", "done"}

\* the watcher's callback gets a modify event: thread::sleep(50 ms)
WatcherCallback ==
  /\ pc # "done"
  /\ wq > 0
  /\ wpc = "idle"
  /\ wq' = wq - 1
  /\ wpc' = "sleeping"
  /\ UNCHANGED <<pc, caller, files, gl, locals, new_program, ctxv, clock,
                 watcher, chan, hist, call, panicked>>
  /\ UNCHANGED <<iter, uniforms, readings, win, created>>

\* the callback wakes: let _ = sender.send(())
WatcherSend ==
  /\ pc # "done"
  /\ wpc = "sleeping"
  /\ wpc' = "idle"
  /\ IF ReceiverAlive
     THEN /\ chan < MaxChan
          /\ chan' = chan + 1
     ELSE UNCHANGED chan
  /\ UNCHANGED <<pc, caller, files, gl, locals, new_program, ctxv, clock,
                 watcher, wq, hist, call, panicked>>
  /\ UNCHANGED <<iter, uniforms, readings, win, created>>

(***************************************************************************)
(* The environment: somebody saves, replaces or removes a shader file. An *)
(* edit that leaves a file in place is a modify event for a live watcher. *)
(***************************************************************************)
EditFile ==
  /\ pc # "done"
  /\ \E p \in Paths, k \in FileKinds :
       /\ k # files[p]
       /\ files' = [files EXCEPT ![p] = k]
       /\ IF watcher = "active" /\ Exists(k)
          THEN /\ wq < MaxQueue
               /\ wq' = wq + 1
          ELSE UNCHANGED wq
  /\ UNCHANGED <<pc, caller, gl, locals, new_program, ctxv, clock, watcher,
                 wpc, chan, hist, call, panicked>>
  /\ UNCHANGED <<iter, uniforms, readings, win, created>>

Next ==
  \/ NewBuffers
  \/ NewDefaults
  \/ ReadVert
  \/ ReadFrag
  \/ CompileVert
  \/ CompileFrag
  \/ LinkProgram
  \/ DetachVert
  \/ DetachFrag
  \/ DeleteVert
  \/ DeleteFrag
  \/ NewConstruct
  \/ StartWatcher
  \/ ProcessEvents
  \/ TryRecv
  \/ ReloadBegin
  \/ ReloadCheck
  \/ ReloadAssign
  \/ Update
  \/ Render
  \/ DropWatcher
  \/ DropContext
  \/ WatcherCallback
  \/ WatcherSend
  \/ EditFile

Spec == Init /\ [][Next]_vars

(***************************************************************************)
(* The clock and the main loop. SystemTime::now() is read by               *)
(* TimeState::new, TimeState::update and render only, so it is enough to   *)
(* let time pass where the main thread is about to read it. The shader     *)
(* files stay as create_default_shaders left them; a save that rewrites a  *)
(* file with the same text is still a modify event.                        *)
(***************************************************************************)
ClockAdvance ==
  /\ pc \in {"n_construct", "update", "render"}
  /\ clock < MaxClock
  /\ clock' = clock + 1
  /\ UNCHANGED <<pc, caller, files, gl, locals, new_program, ctxv, watch, hist,
                 call, iter, uniforms, readings, win, created,
                 panicked>>

TouchFile ==
  /\ pc # "done"
  /\ watcher = "active"
  /\ wq < MaxQueue
  /\ wq' = wq + 1
  /\ UNCHANGED <<pc, caller, files, gl, locals, new_program, ctxv, clock,
                 watcher, wpc, chan, hist, call, iter, uniforms, readings,
                 win, created, panicked>>

InitTime == Init /\ files = [p \in Paths |-> DefaultSource]

MainStep ==
  \/ NewBuffers
  \/ NewDefaults
  \/ ReadVert
  \/ ReadFrag
  \/ CompileVert
  \/ CompileFrag
  \/ LinkProgram
  \/ DetachVert
  \/ DetachFrag
  \/ DeleteVert
  \/ DeleteFrag
  \/ NewConstruct
  \/ StartWatcher
  \/ ProcessEvents
  \/ TryRecv
  \/ ReloadBegin
  \/ ReloadCheck
  \/ ReloadAssign
  \/ Update
  \/ Render
  \/ DropWatcher
  \/ DropContext

NextTime ==
  \/ MainStep
  \/ WatcherCallback
  \/ WatcherSend
  \/ TouchFile
  \/ ClockAdvance

SpecTime == InitTime /\ [][NextTime]_vars

\* the loop with the clock standing still, and the main thread never stopped
\* for good: it goes on while it has a step
NextLoop ==
  \/ MainStep
  \/ WatcherCallback
  \/ WatcherSend
  \/ TouchFile

FairLoop == InitTime /\ [][NextLoop]_vars /\ WF_vars(MainStep)

(***************************************************************************)
(* Startup and the loop from any state of the two files, with nobody else  *)
(* changing what they hold while the program runs (saving a file again as  *)
(* it is still makes a modify event).                                      *)
(***************************************************************************)
SpecStart == Init /\ [][NextLoop]_vars

(***************************************************************************)
(* The window. The user (or the window manager) resizes it at any moment:  *)
(* the framebuffer has its new size at once, which is what                 *)
(* get_framebuffer_size() returns, and a FramebufferSize event waits for   *)
(* the next poll_events().                                                 *)
(***************************************************************************)
Sizes == 1..MaxSize

Resize ==
  /\ pc # "done"
  /\ Len(evq) < MaxEvents
  /\ \E size \in Sizes :
       /\ size # fb
       /\ fb' = size
       /\ evq' = Append(evq, size)
  /\ UNCHANGED <<pc, caller, files, gl, locals, new_program, ctxv, clock,
                 watch, hist, call, iter, uniforms, readings, viewport,
                 created, panicked>>

NextResize ==
  \/ MainStep
  \/ WatcherCallback
  \/ WatcherSend
  \/ TouchFile
  \/ Resize

SpecResize == InitTime /\ [][NextResize]_vars

(***************************************************************************)
(* graphics/time.rs on its own: a TimeState made at the reading t0 and     *)
(* updated at later readings, each later than the one before. The          *)
(* readings lie around the multiples of 2^MantissaBits, where an f32       *)
(* stops telling neighbouring durations apart.                             *)
(***************************************************************************)
ClockReadings ==
  {k * Pow2(MantissaBits) + j : k \in 0..MaxEpoch, j \in 0..MaxJitter}

InitClock ==
  /\ pc = "clock"
  /\ caller = "none"
  /\ files = [p \in Paths |-> DefaultSource]
  /\ gl = GlInit
  /\ vert_source = "none"
  /\ frag_source = "none"
  /\ vert_shader = 0
  /\ frag_shader = 0
  /\ program = 0
  /\ new_program = 0
  /\ shader_program = 0
  /\ vao = 0
  /\ vbo = 0
  /\ \E t0 \in ClockReadings :
       /\ clock = t0
       /\ time_state = TimeNew(t0)
       /\ readings = <<t0>>
  /\ watcher = "unset"
  /\ wq = 0
  /\ wpc = "idle"
  /\ chan = 0
  /\ log = "none"
  /\ attempted = {}
  /\ gl_before = GlInit
  /\ old_program = 0
  /\ lastReload = "none"
  /\ rendered = FALSE
  /\ reloads = 0
  /\ ticks = 0
  /\ uniforms = [prog |-> 0, u_time |-> 0, u_deltaTime |-> 0,
                 u_epochTime |-> 0, u_resolution |-> 0]
  /\ fb = InitialSize
  /\ evq = <<>>
  /\ viewport = InitialSize
  /\ created = {}
  /\ panicked = FALSE

\* time passes
ClockRead ==
  /\ pc = "clock"
  /\ \E t \in ClockReadings :
       /\ t > clock
       /\ clock' = t
  /\ UNCHANGED <<pc, caller, files, gl, locals, new_program, ctxv, watch, hist,
                 call, iter, uniforms, readings, win, created,
                 panicked>>

\* TimeState::update at a reading later than the last one
Tick ==
  /\ pc = "clock"
  /\ Len(readings) <= MaxTicks
  /\ clock > readings[Len(readings)]
  /\ time_state' = TimeUpdate(time_state, clock)
  /\ readings' = Append(readings, clock)
  /\ UNCHANGED <<pc, caller, files, gl, locals, new_program, shader_program,
                 vao, vbo, clock, watch, hist, call, iter, uniforms, win,
                 created, panicked>>

NextClock ==
  \/ ClockRead
  \/ Tick

SpecClock == InitClock /\ [][NextClock]_vars

(***************************************************************************)
(* graphics/time.rs with a clock that may be set back: any reading can     *)
(* follow any other. Here the history keeps the last two readings only.    *)
(***************************************************************************)
ClockJump ==
  /\ pc = "clock"
  /\ \E t \in ClockReadings :
       /\ t # clock
       /\ clock' = t
  /\ UNCHANGED <<pc, caller, files, gl, locals, new_program, ctxv, watch, hist,
                 call, iter, uniforms, readings, win, created, panicked>>

\* TimeState::update at whatever the clock reads
TickAny ==
  /\ pc = "clock"
  /\ time_state' = TimeUpdate(time_state, clock)
  /\ readings' = <<readings[Len(readings)], clock>>
  /\ UNCHANGED <<pc, caller, files, gl, locals, new_program, shader_program,
                 vao, vbo, clock, watch, hist, call, iter, uniforms, win,
                 created, panicked>>

NextJump ==
  \/ ClockJump
  \/ TickAny

SpecJump == InitClock /\ [][NextJump]_vars

(***************************************************************************)
(* Properties.                                                             *)
(***************************************************************************)
\* p names a program object that exists, is linked and was not deleted
ValidProgram(g, p) == p \in Programs(g) /\ p \in g.linked /\ p \notin g.flagged

\* compile_shader_program has returned to its caller, which has not yet acted
Returned == pc \in {"n_construct", "r_check"}

\* reload_shaders() has returned in this loop iteration
ReloadDone == pc \in {"update", "render", "poll"} /\ lastReload # "none"

ReadErrors == {"Failed to read vertex shader", "Failed to read fragment shader"}

\* C1: when the compile of a reload fails (a source cannot be read, a stage
\* does not compile, the link fails), shader_program keeps the handle it had
\* when the reload began, that program still exists undeleted, and the render
\* that follows draws with it.
C1_FailedReloadKeepsProgram ==
  lastReload = "failed" =>
    /\ shader_program = old_program
    /\ old_program # 0 => ValidProgram(gl, old_program)
    /\ rendered => gl.current = old_program

C1_Witness ==
  /\ pc = "poll"
  /\ lastReload = "failed"
  /\ rendered
  /\ old_program # 0
  /\ log = "Fragment shader compilation failed"

\* C2: after a reload whose compile succeeded, shader_program is a linked,
\* undeleted program other than the handle held before, the handle held before
\* has been released; no glDelete* call ever names an object already released
\* or flagged; and after a normal shutdown no program is left unreleased.
C2_SuccessfulReloadSwaps ==
  /\ (ReloadDone /\ lastReload = "ok") =>
       /\ ValidProgram(gl, shader_program)
       /\ shader_program # old_program
       /\ old_program # 0 => old_program \notin LiveObjects(gl)
  /\ ~gl.dbl
  /\ ~gl.err
  /\ (pc = "done" /\ ~panicked) => Programs(gl) \subseteq gl.flagged

C2_Witness ==
  /\ pc = "poll"
  /\ lastReload = "ok"
  /\ old_program # 0
  /\ old_program \notin Programs(gl)
  /\ rendered

\* C3: whenever render() is about to run, shader_program is a linked program
\* that has not been deleted, or it is the 0 a failed initial compile left: no
\* compile has succeeded since, so no program object exists and none is in use.
C3_RenderProgramNeverDeleted ==
  pc = "render" =>
    \/ ValidProgram(gl, shader_program)
    \/ (shader_program = 0 /\ Programs(gl) = {} /\ gl.current = 0)

C3_Witness ==
  /\ pc = "render"
  /\ lastReload = "ok"
  /\ ValidProgram(gl, shader_program)
  /\ old_program # 0
  /\ gl.current = old_program
  /\ old_program \in gl.flagged

\* C4: outside shutdown, a step releases the active program only in
\* reload_shaders() after compile returned a linked program, and
\* shader_program changes, after construction, only in the one assignment that
\* stores that program.
C4_DeleteOnlyAfterValidReplacement ==
  [][/\ (/\ shader_program # 0
         /\ shader_program \in LiveObjects(gl)
         /\ shader_program \notin LiveObjects(gl')
         /\ pc # "drop_state")
        => (pc = "r_check" /\ new_program # 0 /\ ValidProgram(gl, new_program))
     /\ (shader_program' # shader_program /\ pc # "n_construct")
        => (/\ pc = "r_assign"
            /\ shader_program' = new_program
            /\ ValidProgram(gl, new_program)
            /\ shader_program \notin LiveObjects(gl))]_vars

C4_Witness ==
  /\ pc = "r_assign"
  /\ shader_program # 0
  /\ shader_program \notin LiveObjects(gl)
  /\ ValidProgram(gl, new_program)

\* C5: no reload ends the viewer: whatever the shader files hold when they are
\* reloaded, the main thread does not panic inside reload_shaders().
C5_ReloadNeverPanics == ~(panicked /\ caller = "reload")

\* C6: when compile_shader_program returns a program, both stages were
\* detached before they were deleted (no stage is ever left flagged for
\* deletion while attached), no shader object exists, nothing is attached, and
\* the returned program is the only object that was not there at the call.
C6_SuccessLeavesOnlyProgram ==
  /\ (Returned /\ new_program # 0) =>
       /\ Shaders(gl) = {}
       /\ gl.attached = {}
       /\ ValidProgram(gl, new_program)
       /\ new_program \notin LiveObjects(gl_before)
       /\ LiveObjects(gl) = LiveObjects(gl_before) \cup {new_program}
  /\ Shaders(gl) \cap gl.flagged = {}
  /\ pc \in {"c_delete_vert", "c_delete_frag"} => gl.attached = {}

C6_Witness ==
  /\ pc = "r_check"
  /\ new_program # 0
  /\ shader_program # 0

\* C7: when compile_shader_program returns 0, the GL objects are exactly those
\* of the call's entry: every stage and program it created is gone again.
C7_FailureLeavesNoObject ==
  (Returned /\ new_program = 0) => gl = gl_before

C7_Witness ==
  /\ pc = "r_check"
  /\ new_program = 0
  /\ log = "Program linking failed"
  /\ shader_program # 0

\* C8: compile_shader is called for no stage when a source file cannot be
\* read, and not for the fragment stage when the vertex stage did not compile;
\* until both files are read no GL object is created.
C8_NoCompileAfterFailure ==
  /\ pc \in {"c_read_vert", "c_read_frag", "c_compile_vert"} =>
       (attempted = {} /\ gl = gl_before)
  /\ (Returned /\ log \in ReadErrors) => (attempted = {} /\ gl = gl_before)
  /\ (Returned /\ log = "Vertex shader compilation failed") =>
       attempted = {"vertex"}
  /\ "fragment" \in attempted => "vertex" \in attempted
  /\ pc = "c_compile_frag" =>
       (vert_shader \in Shaders(gl) /\ Compiles(gl.src[vert_shader]))

C8_Witness ==
  /\ pc = "r_check"
  /\ log = "Vertex shader compilation failed"
  /\ files["fragment"] = "A"

\* C9: shader_program is written only when the context is built and by the
\* assignment of reload_shaders(); compile_shader_program, update(), render()
\* and process_events() leave it alone; vao and vbo keep, from
\* create_vertex_buffers on, the names they were given, and those objects
\* exist until the context is dropped.
C9_OnlyReloadWritesProgram ==
  [][/\ shader_program' # shader_program => pc \in {"n_construct", "r_assign"}
     /\ pc # "start" => (vao' = vao /\ vbo' = vbo)
     /\ pc \notin {"start", "drop_state", "done"} =>
          (vao' \in gl'.vaos /\ vbo' \in gl'.bufs)]_vars

C9_Witness ==
  /\ pc = "poll"
  /\ rendered
  /\ lastReload = "ok"
  /\ vao # 0
  /\ vbo # 0

\* C10: a failing initial compile never stops construction: new() does not
\* panic, and the context it builds holds shader_program = 0.
C10_InitialFailureStillConstructs ==
  /\ ~(panicked /\ caller = "new")
  /\ (pc = "n_construct" /\ log # "none") => new_program = 0

\* the main thread is inside reload_shaders()
CompilePcs == {"c_read_vert", "c_read_frag", "c_compile_vert", "c_compile_frag",
               "c_link", "c_detach_vert", "c_detach_frag", "c_delete_vert",
               "c_delete_frag"}
InReload == \/ pc \in {"r_start", "r_check", "r_assign"}
            \/ pc \in CompilePcs /\ caller = "reload"

\* C11: in every iteration of the main loop reload_shaders() is called at most
\* once, however many signals are pending, and exactly once when at least one
\* signal is pending at the reload step: the step after the poll calls it if
\* and only if the channel is not empty, nothing else calls it, and the call
\* count of an iteration never exceeds one.
C11_AtMostOneReloadPerIteration ==
  /\ [](reloads <= 1)
  /\ [][/\ (pc = "try_recv" /\ pc' # pc) =>
             /\ reloads = 0
             /\ pc' = IF chan > 0 THEN "r_start" ELSE AfterReload
        /\ (pc' = "r_start" /\ pc # "r_start") => pc = "try_recv" /\ chan > 0
        /\ reloads' > reloads => pc = "r_start" /\ reloads' = reloads + 1]_vars

\* one reload ran in this iteration, which goes on to render while a further
\* signal is pending
C11_Witness == pc = "render" /\ reloads = 1 /\ chan > 0

\* C12: the reload step drains the channel: when it finds k >= 1 signals
\* pending it consumes all of them, so the channel is empty when
\* reload_shaders() is entered and the backlog causes no reload later.
C12_ReloadStepDrains ==
  [][(pc = "try_recv" /\ pc' = "r_start") => chan' = 0]_vars

\* C13: a burst of modify events inside one debounce window gives exactly one
\* reload signal: when the callback sends after its delay, every event that
\* came in during the delay is covered by that send and none is left to be
\* signalled again.
C13_BurstGivesOneSignal ==
  [][(wpc = "sleeping" /\ wpc' = "idle") => wq' = 0]_vars

\* C14: in every iteration the reload step comes before update() and
\* render(), so that after a successful reload the render of that iteration
\* binds, gives its uniforms to and draws with the new program, not the one
\* that was replaced.
C14_RenderUsesReloadedProgram ==
  /\ InReload => ticks = 0 /\ ~rendered
  /\ pc \in {"try_recv", "update", "render"} => ~rendered
  /\ (rendered /\ lastReload = "ok") =>
       /\ ValidProgram(gl, shader_program)
       /\ gl.current = shader_program
       /\ uniforms.prog = shader_program
       /\ shader_program # old_program
       /\ old_program \notin LiveObjects(gl)

\* a frame was drawn right after a reload replaced a program that had been
\* drawn with before
C14_Witness ==
  rendered /\ lastReload = "ok" /\ old_program # 0 /\ reloads = 1 /\ ticks = 1

TickCount == Len(readings) - 1
Reading(k) == readings[k + 1]

ContextBuilt == ~(panicked /\ caller = "new")

\* C16: the context's Drop runs exactly once per context and releases the
\* program, the buffer and the vertex array exactly once each; no GL call
\* names these handles afterwards, no call ever names an object that was
\* released, and nothing is released twice.
C16_ShutdownReleasesOnce ==
  /\ [](/\ ~gl.err
        /\ ~gl.dbl
        /\ pc # "done" =>
             /\ gl.vaoDel = 0
             /\ gl.bufDel = 0
             /\ vao # 0 => vao \in gl.vaos /\ vbo \in gl.bufs
        /\ (pc = "done" /\ ContextBuilt) =>
             /\ gl.vaoDel = 1
             /\ gl.bufDel = 1
             /\ vao \notin gl.vaos
             /\ vbo \notin gl.bufs
             /\ ~ValidProgram(gl, shader_program))
  /\ [][/\ pc = "done" => gl' = gl
        /\ (gl'.vaoDel # gl.vaoDel \/ gl'.bufDel # gl.bufDel) =>
             pc = "drop_state" /\ pc' = "done"]_vars

\* the process ended in the ordinary way; the program was in use when Drop
\* deleted it
C16_Witness ==
  /\ pc = "done"
  /\ ~panicked
  /\ shader_program \in gl.flagged
  /\ gl.vaoDel = 1
  /\ gl.bufDel = 1

\* the loop has ended: main is dropping its locals, or the process is over
Closing == pc \in {"drop_watcher", "drop_state", "done"}

\* C17: once process_events() has reported the close request the loop is
\* over for good: no reload, update or render follows that poll (none ran
\* since it, none runs later), signals still pending stay in the channel,
\* and the context's Drop runs before the process ends.
C17_CloseIsFinal ==
  /\ []((Closing /\ ~panicked) => reloads = 0 /\ ticks = 0 /\ ~rendered)
  /\ [][/\ (pc = "poll" /\ pc' # pc) => pc' \in {"try_recv", "drop_watcher"}
        /\ Closing =>
             /\ Closing'
             /\ UNCHANGED <<reloads, ticks, rendered, shader_program,
                            time_state, uniforms>>
             /\ chan' >= chan]_vars
  /\ (Closing /\ ContextBuilt) ~>
       (pc = "done" /\ gl.vaoDel = 1 /\ gl.bufDel = 1)

\* the window was closed while a signal was pending; the process ended with
\* the signal still in the channel and the context dropped
C17_Witness ==
  /\ pc = "done"
  /\ ~panicked
  /\ chan > 0
  /\ gl.vaoDel = 1

\* C19: when the watcher cannot be started the program goes on: main enters
\* its loop with the program new() compiled, no event and no signal ever
\* exists, reload_shaders() is never called and shader_program never changes.
C19_WatcherFailureIsHarmless ==
  /\ [](watcher = "failed" =>
          /\ ~panicked
          /\ wq = 0 /\ wpc = "idle" /\ chan = 0
          /\ reloads = 0 /\ ~InReload /\ lastReload = "none"
          /\ pc \in {"poll", "try_recv", "update", "render", "drop_watcher",
                     "drop_state", "done"})
  /\ [][/\ (pc = "watch" /\ pc' # pc) => pc' = "poll"
        /\ watcher = "failed" =>
             /\ watcher' = "failed"
             /\ shader_program' = shader_program
             /\ (pc = "try_recv" /\ pc' # pc) => pc' = AfterReload]_vars

\* without a watcher, a shader file was changed on disk and a frame was
\* drawn with the initial program all the same
C19_Witness ==
  /\ watcher = "failed"
  /\ rendered
  /\ ValidProgram(gl, shader_program)
  /\ gl.current = shader_program
  /\ files["fragment"] = "B"

\* C20: once main has dropped the watcher the watch thread sends nothing
\* more, not even the send of a callback that was inside its delay at that
\* moment; and the watcher is dropped before the context releases its GL
\* handles.
C20_NoSendAfterWatcherDrop ==
  /\ [](gl.vaoDel > 0 => watcher \in {"dropped", "failed"})
  /\ [][watcher = "dropped" => ~(wpc = "sleeping" /\ wpc' = "idle")]_vars

\* C21: after a FramebufferSize event for a size was seen by
\* process_events(), the next render() gives u_resolution that size and
\* draws with a viewport of that size; in every draw u_resolution, the
\* viewport and the framebuffer's size at that moment are the same.
C21_ResolutionMatchesViewport ==
  /\ [](rendered => uniforms.u_resolution = viewport)
  /\ [][(pc = "render" /\ pc' # pc) =>
          /\ uniforms'.u_resolution = fb
          /\ viewport' = fb]_vars

\* C22: at startup new() writes the default source to each shader file that
\* is not there and leaves a file that is there as it is, all before the
\* first read or compile; when neither file was there, what
\* compile_shader_program returns to new() is a linked program (not 0), made
\* from the two default sources.
C22_DefaultsBeforeFirstCompile ==
  /\ [](/\ pc \in {"start", "n_defaults"} =>
             /\ attempted = {}
             /\ Shaders(gl) \cup Programs(gl) = {}
        /\ (pc \in CompilePcs /\ caller = "new") =>
             \A p \in Paths : Exists(files[p])
        /\ (pc = "n_construct" /\ created = Paths) =>
             /\ new_program # 0
             /\ ValidProgram(gl, new_program)
             /\ \A p \in Paths : files[p] = DefaultSource)
  /\ [][(pc = "n_defaults" /\ pc' # pc) =>
          \A p \in Paths :
            /\ files[p] = "absent" => files'[p] = DefaultSource
            /\ files[p] # "absent" => files'[p] = files[p]
            /\ p \in created' <=> files[p] = "absent"]_vars

\* neither file was there: new() has its program, compiled from the defaults
C22_Witness ==
  /\ pc = "n_construct"
  /\ created = Paths
  /\ new_program # 0
  /\ \A p \in Paths : files[p] = DefaultSource

\* the main thread is between two steps of the loop body
BetweenSteps == pc \in {"poll", "try_recv", "r_start", "update", "render"}

\* program objects the application has not deleted
LivePrograms(g) == Programs(g) \cap LiveObjects(g)

\* C23: between the steps of the main loop, whatever reloads succeeded or
\* failed before, the programs the application has not deleted are exactly
\* the active one (none while shader_program is 0). The only other program
\* object the driver can still hold is the replaced one, deleted while in
\* use, and it is gone once the iteration has rendered.
C23_OnlyActiveProgramLive ==
  BetweenSteps =>
    /\ LivePrograms(gl) = IF shader_program = 0 THEN {} ELSE {shader_program}
    /\ Programs(gl) \subseteq {shader_program, gl.current}
    /\ rendered => Programs(gl) = LivePrograms(gl)

\* a second reload in a row has succeeded; the program it replaced was in
\* use and waits, deleted, for the next glUseProgram
C23_Witness ==
  /\ pc = "update"
  /\ lastReload = "ok"
  /\ old_program \in gl.flagged
  /\ gl.current = old_program
  /\ LivePrograms(gl) = {shader_program}
  /\ uniforms.prog = old_program

\* C24: whatever the clock reads, also a reading earlier than the start or
\* than the frame before, update() leaves delta >= 0 and total >= 0 (an
\* interval that would be negative is 0), and sets last_frame_time to the
\* reading it took, from which the next delta is measured.
C24_NegativeIntervalsClamped ==
  /\ [](/\ time_state.delta >= 0
        /\ time_state.total >= 0
        /\ time_state.last = readings[Len(readings)])
  /\ [][readings' # readings =>
          LET prev == readings[Len(readings)]
              now == readings'[Len(readings')]
          IN /\ now = clock
             /\ time_state'.last = now
             /\ time_state'.start = time_state.start
             /\ time_state'.delta =
                  IF now < prev THEN 0 ELSE AsSecsF32(now - prev)
             /\ time_state'.total =
                  IF now < time_state.start THEN 0
                  ELSE AsSecsF32(now - time_state.start)]_vars

\* an update at a reading earlier than the start and than the frame before:
\* both values are 0 and the last frame is that reading
C24_Witness ==
  /\ Len(readings) = 2
  /\ readings[2] < readings[1]
  /\ readings[2] < time_state.start
  /\ time_state.delta = 0
  /\ time_state.total = 0
  /\ time_state.last = readings[2]

\* C25: when new() got no program (shader_program is 0), a reload that
\* fails leaves shader_program 0, and the first reload that compiles and
\* links makes shader_program a linked, undeleted program; its swap deletes
\* nothing that exists (the one glDeleteProgram call names 0), so the GL
\* objects are those of before plus the new program.
C25_FirstProgramAfterFailedStart ==
  /\ []((ReloadDone /\ old_program = 0) =>
          /\ lastReload = "failed" => shader_program = 0 /\ Programs(gl) = {}
          /\ lastReload = "ok" =>
               /\ shader_program # 0
               /\ ValidProgram(gl, shader_program)
               /\ LivePrograms(gl) = {shader_program}
               /\ ~gl.err /\ ~gl.dbl)
  /\ [][(pc \in {"r_check", "r_assign"} /\ shader_program = 0 /\ pc' # pc) =>
          /\ gl' = gl
          /\ pc = "r_check" =>
               /\ shader_program' = 0
               /\ pc' = IF new_program # 0 THEN "r_assign" ELSE AfterReload
          /\ pc = "r_assign" =>
               /\ shader_program' = new_program
               /\ ValidProgram(gl, new_program)]_vars

\* started without a program; a later reload succeeded and its frame was
\* drawn with the new program
C25_Witness ==
  /\ pc = "poll"
  /\ rendered
  /\ old_program = 0
  /\ lastReload = "ok"
  /\ gl.current = shader_program
  /\ shader_program # 0

\* C26: with the main thread scheduled fairly, a signal that is in the
\* channel while the loop runs leads to a call of reload_shaders() unless
\* the window is closed first; the channel check never waits, so every
\* iteration that reaches it goes on to draw its frame, signal or no signal;
\* and reload_shaders() is entered only by an iteration that took a signal
\* out of the channel.
C26_SignalLeadsToReload ==
  /\ (chan > 0) ~> (pc = "r_start" \/ Closing)
  /\ (pc = "try_recv") ~> rendered
  /\ [][/\ (pc = "try_recv" /\ chan = 0 /\ pc' # pc) =>
             pc' = AfterReload /\ reloads' = 0
        /\ (pc' = "r_start" /\ pc # "r_start") =>
             pc = "try_recv" /\ chan > 0 /\ chan' = chan - 1
        /\ reloads' > reloads => pc = "r_start"]_vars

\* frames were drawn with an empty channel, then a save was signalled and
\* the loop took the signal: reload_shaders() is about to run
C26_Witness ==
  /\ pc = "r_start"
  /\ chan = 0
  /\ uniforms.prog # 0
  /\ watcher = "active"

====
